---- MODULE Spec2Model ----
(***************************************************************************)
(* The model manager of gam-ml-test (src/src/Managers/ModelManager.py):    *)
(* the Model container it operates on, the Data collaborator's column      *)
(* counts, and one action per public method.  The deep-learning framework  *)
(* is an external collaborator: its constructors hand out fresh handles    *)
(* and each of its calls that can reject its arguments either returns or   *)
(* raises, chosen nondeterministically.                                    *)
(***************************************************************************)
EXTENDS Integers, Sequences, FiniteSets, TLC

(* ------------------------------ bounds --------------------------------- *)
\* Framework handles (tensors) handed out in one behaviour.
MaxHandles == 2
\* Widest Input layer.
MaxDim == 2
\* Largest column count asked of, or bound to, a layer.
MaxCols == 2
\* Largest number of epochs asked of fit_model.
MaxEpochs == 2
\* Longest metrics list per layer and longest callbacks list.
MaxList == 1
\* Longest list of observers.
MaxObservers == 3
\* Most dimensions of a shape, and most shapes in one collection.
MaxRank == 3
MaxShapes == 3

(* --------------------------- input domains ----------------------------- *)
\* Layer names; "io" is a two-character name whose characters are names too.
LayerNames == {"i", "o", "io"}
\* The names used where the graph is not the concern.
CoreNames == {"i", "o"}
ModelNames == {"net"}
Dims == 1..MaxDim
Optimizers == {"Adam"}
OptimizerKinds == {"Adam", "SGD"}
LossKinds == {"mse"}
MetricKinds == {"mae"}
CallbackKinds == {"EarlyStopping"}

\* Python values that are not strings of the domains above.
None == "None"
EmptyList == "[]"
EmptyDict == [x \in {} |-> 0]

VARIABLES
    instance,          \* Model.instance: the framework model or NoInstance
    name,              \* Model.name
    input_layers,      \* Model.input_layers: name -> handle
    output_layers,     \* Model.output_layers: name -> handle
    layers,            \* Model.layers: name -> handle
    input_shapes,      \* Model.input_shapes: name -> int
    output_shapes,     \* Model.output_shapes: name -> int
    losses,            \* Model.losses: name -> EmptyList or a loss
    metrics,           \* Model.metrics: name -> sequence of metrics
    optimizer,         \* Model.optimizer: None or an optimizer
    callbacks,         \* Model.callbacks: sequence of callbacks
    compiled,          \* Model.compiled
    training_history,  \* Model.training_history: log name -> per-epoch values
    columns_per_layer, \* Data.columns_per_layer: name -> int
    observers,         \* ModelManager._observers: sequence of observers
    nextHandle,        \* number of framework handles handed out so far
    last               \* the call just made: operation, arguments, outcome

graph == <<instance, name, input_layers, output_layers, layers,
           input_shapes, output_shapes>>
config == <<losses, metrics, optimizer, callbacks, compiled, training_history>>
vars == <<graph, config, columns_per_layer, observers, nextHandle, last>>

(* ------------------------- framework objects --------------------------- *)
\* A tensor handle: identity plus the width shape[1] the framework reports.
Handle(id, dim) == [id |-> id, dim |-> dim]

\* tf.keras.Model object: name, input_names/inputs, output_names/outputs and
\* the framework's own record of whether compile() has been called on it.
NoInstance ==
    [nil |-> TRUE, name |-> "", inputs |-> EmptyDict, outputs |-> EmptyDict,
     compiled |-> FALSE]

KerasModel(ins, outs, nm) ==
    [nil |-> FALSE, name |-> nm, inputs |-> ins, outputs |-> outs,
     compiled |-> FALSE]

\* dict | dict : the right operand wins on a common key.
DictUnion(a, b) ==
    [k \in (DOMAIN a) \cup (DOMAIN b) |-> IF k \in DOMAIN b THEN b[k] ELSE a[k]]

\* dict.update({k: v})
DictPut(d, k, v) ==
    [x \in (DOMAIN d) \cup {k} |-> IF x = k THEN v ELSE d[x]]

Range(s) == {s[i] : i \in DOMAIN s}

(* ----------------------------- observers ------------------------------- *)
\* The callback types of Observe that the manager passes to notify_observers.
CallbackTypes ==
    {"MODEL", "LAYER_ADDED", "OUTPUTS_SET", "OPTIMIZER_SELECTED",
     "LOSSES_SELECTED", "MODEL_COMPILED", "MODEL_TRAINED"}

\* An observer is the set of callback types it has a callable attribute for:
\* one kind of observer has them all, the other only MODEL.
ObserverKinds == {CallbackTypes, {"MODEL"}}

\* Lines 361-363: getattr(observer, callback_type, None), callable(callback).
Exposes(observer, callback_type) == callback_type \in observer

\* Mutant: the loop ends at the first observer without the callback.
notify_observers_until_missing(callback_type) ==
    LET visit[i \in 0..Len(observers)] ==
            IF i = 0 THEN <<>>
            ELSE IF /\ Exposes(observers[i], callback_type)
                    /\ Len(visit[i - 1]) = i - 1
                 THEN Append(visit[i - 1], i)
                 ELSE visit[i - 1]
    IN visit[Len(observers)]

\* The loop of notify_observers; "none" stands for a method that does not
\* call it, and no observer exposes it.
notify_observers(callback_type) ==
    LET visit[i \in 0..Len(observers)] ==
            IF i = 0 THEN <<>>
            ELSE IF Exposes(observers[i], callback_type)
                 THEN Append(visit[i - 1], i)
                 ELSE visit[i - 1]
    IN visit[Len(observers)]

(* ------------------------------ the call log --------------------------- *)
\* op: the method; args: its arguments; status: "ok" or the exception that
\* left the method; pre: the loss and metric selections when it was called;
\* fw: the framework call the method reached ("none" if it reached none);
\* notify: the callback type passed to notify_observers ("none" if not called);
\* result: the value returned (None for the procedures).
\* invoked: the observers whose callback notify_observers called, in the
\* order it called them (positions in the observers list).
\* again: the call repeats, with the same arguments, the call before it,
\* and that call succeeded (recorded for set_model_outputs only).
Call(op, args, status, fw, notify, result) ==
    [op |-> op, args |-> args, status |-> status, fw |-> fw,
     notify |-> notify, invoked |-> notify_observers(notify),
     result |-> result,
     pre |-> [losses |-> losses, metrics |-> metrics,
              optimizer |-> optimizer],
     again |-> /\ op = "set_model_outputs"
               /\ last.op = op
               /\ last.status = "ok"
               /\ last.args = args]

NoArgs == [none |-> TRUE]

(* ------------------------------- Init ---------------------------------- *)
\* The Model and Data containers as constructed: no instance, empty
\* collections, nothing compiled.
Init ==
    /\ instance = NoInstance
    /\ name = ""
    /\ input_layers = EmptyDict
    /\ output_layers = EmptyDict
    /\ layers = EmptyDict
    /\ input_shapes = EmptyDict
    /\ output_shapes = EmptyDict
    /\ losses = EmptyDict
    /\ metrics = EmptyDict
    /\ optimizer = None
    /\ callbacks = <<>>
    /\ compiled = FALSE
    /\ training_history = EmptyDict
    /\ columns_per_layer = EmptyDict
    /\ observers = <<>>
    /\ nextHandle = 0
    /\ last = [op |-> "init", args |-> NoArgs, status |-> "ok",
               fw |-> "none", notify |-> "none", invoked |-> <<>>,
               result |-> None,
               pre |-> [losses |-> EmptyDict, metrics |-> EmptyDict,
                        optimizer |-> None],
               again |-> FALSE]

(* --------------------------- refresh_model ----------------------------- *)
\* Mutant: the union forgets the output layers.
RefreshedLayersInputsOnly(ins, outs) == ins

RefreshedLayers(ins, outs) == DictUnion(ins, outs)

RefreshedInputShapes(inst) == [n \in DOMAIN inst.inputs |-> inst.inputs[n].dim]

\* Mutant: an output designated before counts one unit more.
RefreshedOutputShapesAccumulating(inst) ==
    [n \in DOMAIN inst.outputs |->
        IF n \in DOMAIN output_shapes THEN output_shapes[n] + 1 ELSE 1]

RefreshedOutputShapes(inst) == [n \in DOMAIN inst.outputs |-> 1]

\* Mutant: a retained output keeps the loss it had.
RefreshedLossesKept(outs) ==
    [n \in DOMAIN outs |->
        IF n \in DOMAIN losses THEN losses[n] ELSE EmptyList]

RefreshedLosses(outs) == [n \in DOMAIN outs |-> EmptyList]

RefreshedMetrics(outs) == [n \in DOMAIN outs |-> <<>>]

\* refresh_model run on the instance just stored; compiled, optimizer,
\* callbacks and training_history are not assigned by it.
refresh_model(inst) ==
    /\ name' = inst.name
    /\ input_layers' = inst.inputs
    /\ output_layers' = inst.outputs
    /\ layers' = RefreshedLayers(inst.inputs, inst.outputs)
    /\ input_shapes' = RefreshedInputShapes(inst)
    /\ output_shapes' = RefreshedOutputShapes(inst)
    /\ losses' = RefreshedLosses(inst.outputs)
    /\ metrics' = RefreshedMetrics(inst.outputs)

(* --------------------------- create_model ------------------------------ *)
create_model(model_name) ==
    /\ instance' = KerasModel(EmptyDict, EmptyDict, model_name)
    /\ refresh_model(instance')
    /\ last' = Call("create_model", [model_name |-> model_name], "ok",
                    "Model", "MODEL", None)
    /\ UNCHANGED <<optimizer, callbacks, compiled, training_history,
                   columns_per_layer, observers, nextHandle>>

(* --------------------------- upload_model ------------------------------ *)
\* What load_model can return: a saved model with one input "i" of width dim
\* and one output "o", saved with or without its compile state.
LoadedModel(dim, was_compiled) ==
    [nil |-> FALSE, name |-> "net",
     inputs |-> [n \in {"i"} |-> Handle(nextHandle + 1, dim)],
     outputs |-> [n \in {"o"} |-> Handle(nextHandle + 2, 1)],
     compiled |-> was_compiled]

\* Mutant: the observers are notified although load_model raised.
upload_model_always_notifying(dim, was_compiled, fw_ok) ==
    /\ nextHandle + 2 <= MaxHandles
    /\ IF fw_ok
       THEN /\ instance' = LoadedModel(dim, was_compiled)
            /\ refresh_model(instance')
            /\ nextHandle' = nextHandle + 2
            /\ last' = Call("upload_model", NoArgs, "ok", "load_model",
                            "MODEL", None)
       ELSE /\ UNCHANGED <<graph, losses, metrics, nextHandle>>
            /\ last' = Call("upload_model", NoArgs, "FrameworkError",
                            "load_model", "MODEL", None)
    /\ UNCHANGED <<optimizer, callbacks, compiled, training_history,
                   columns_per_layer, observers>>

upload_model(dim, was_compiled, fw_ok) ==
    /\ nextHandle + 2 <= MaxHandles
    /\ IF fw_ok
       THEN /\ instance' = LoadedModel(dim, was_compiled)
            /\ refresh_model(instance')
            /\ nextHandle' = nextHandle + 2
            /\ last' = Call("upload_model", NoArgs, "ok", "load_model",
                            "MODEL", None)
       ELSE /\ UNCHANGED <<graph, losses, metrics, nextHandle>>
            /\ last' = Call("upload_model", NoArgs, "FrameworkError",
                            "load_model", "none", None)
    /\ UNCHANGED <<optimizer, callbacks, compiled, training_history,
                   columns_per_layer, observers>>

(* ----------------------------- add_layer ------------------------------- *)
\* connect_to: None, one name (a str) or a list of names.
ConnectNone == [kind |-> "none", names |-> <<>>]
ConnectStr(n) == [kind |-> "str", names |-> <<n>>]
ConnectList(ns) == [kind |-> "list", names |-> ns]

\* Lists of at most two distinct names drawn from N.
NameLists(N) ==
    {<<>>} \cup {<<a>> : a \in N}
           \cup {ns \in {<<a, b>> : a, b \in N} : ns[1] # ns[2]}

ConnectTos(N) ==
    {ConnectNone} \cup {ConnectStr(n) : n \in N}
                  \cup {ConnectList(ns) : ns \in NameLists(N)}

\* Mutant: only the first name of connect_to is looked up.
ConnectLookupsFirst(connect_to) ==
    IF connect_to.names = <<>> THEN {} ELSE {connect_to.names[1]}

\* The names add_layer looks up in layers (lines 102 and 104).
ConnectLookups(connect_to) == Range(connect_to.names)

\* Line 99: input_layers.update(layer).
AddToInputs(ins, layer_name, h) == DictPut(ins, layer_name, h)

\* Mutant: the new entry replaces the registry instead of joining it.
AddToLayersReplacing(ls, layer_name, h) == DictPut(EmptyDict, layer_name, h)

\* Line 108: layers.update(layer).
AddToLayers(ls, layer_name, h) == DictPut(ls, layer_name, h)

add_layer(layer_name, connect_to, dim, fw_ok) ==
    LET args == [name |-> layer_name, connect_to |-> connect_to, dim |-> dim]
        h == Handle(nextHandle + 1, dim)
        raised(status, fw) ==
            /\ UNCHANGED <<graph, nextHandle>>
            /\ last' = Call("add_layer", args, status, fw, "none", None)
    IN
    /\ nextHandle + 1 <= MaxHandles
    /\ IF connect_to.kind = "none"
       THEN IF fw_ok
            THEN /\ input_layers' = AddToInputs(input_layers, layer_name, h)
                 /\ layers' = AddToLayers(layers, layer_name, h)
                 /\ nextHandle' = nextHandle + 1
                 /\ last' = Call("add_layer", args, "ok", "layer",
                                 "LAYER_ADDED", None)
                 /\ UNCHANGED <<instance, name, output_layers, input_shapes,
                                output_shapes>>
            ELSE raised("FrameworkError", "layer")
       ELSE IF ~(ConnectLookups(connect_to) \subseteq DOMAIN layers)
            THEN raised("KeyError", "none")
            ELSE IF fw_ok
                 THEN /\ layers' = AddToLayers(layers, layer_name, h)
                      /\ nextHandle' = nextHandle + 1
                      /\ last' = Call("add_layer", args, "ok", "layer",
                                      "LAYER_ADDED", None)
                      /\ UNCHANGED <<instance, name, input_layers,
                                     output_layers, input_shapes,
                                     output_shapes>>
                 ELSE raised("FrameworkError", "layer")
    /\ UNCHANGED <<config, columns_per_layer, observers>>

(* ------------------------- set_model_outputs --------------------------- *)
\* Iterating a Python str yields its characters.
Chars(s) ==
    CASE s = "i" -> <<"i">>
      [] s = "o" -> <<"o">>
      [] s = "io" -> <<"i", "o">>

OutputsStr(n) == [kind |-> "str", names |-> <<n>>]
OutputsList(ns) == [kind |-> "list", names |-> ns]

OutputsNames(N) ==
    {OutputsStr(n) : n \in N} \cup {OutputsList(ns) : ns \in NameLists(N)}

\* The names `for name in outputs_names` visits (line 122).
OutputsIter(outputs_names) ==
    IF outputs_names.kind = "str"
    THEN Range(Chars(outputs_names.names[1]))
    ELSE Range(outputs_names.names)

\* Lines 121-123: the dict comprehension over layers.
DesignatedOutputs(ls, names) == [n \in names |-> ls[n]]

\* The framework builds a model from given inputs, outputs and name or
\* refuses to; it does the same for the same arguments, so it builds again
\* what the instance in place consists of.
ModelBuilt(ins, outs, nm, fw_ok) ==
    \/ fw_ok
    \/ /\ ~instance.nil
       /\ instance.inputs = ins
       /\ instance.outputs = outs
       /\ instance.name = nm

set_model_outputs(outputs_names, fw_ok) ==
    LET args == [outputs_names |-> outputs_names]
        names == OutputsIter(outputs_names)
    IN
    /\ IF ~(names \subseteq DOMAIN layers)
       THEN /\ UNCHANGED <<graph, losses, metrics>>
            /\ last' = Call("set_model_outputs", args, "KeyError", "none",
                            "none", None)
       ELSE IF ModelBuilt(input_layers, DesignatedOutputs(layers, names),
                          name, fw_ok)
            THEN /\ instance' = KerasModel(input_layers,
                                   DesignatedOutputs(layers, names), name)
                 /\ refresh_model(instance')
                 /\ last' = Call("set_model_outputs", args, "ok", "Model",
                                 "OUTPUTS_SET", None)
            ELSE /\ output_layers' = DesignatedOutputs(layers, names)
                 /\ UNCHANGED <<instance, name, input_layers, layers,
                                input_shapes, output_shapes, losses, metrics>>
                 /\ last' = Call("set_model_outputs", args, "FrameworkError",
                                 "Model", "none", None)
    /\ UNCHANGED <<optimizer, callbacks, compiled, training_history,
                   columns_per_layer, observers, nextHandle>>

(* -------------------- optimizer, losses, metrics ------------------------ *)
\* Mutant: a new optimizer also withdraws the compiled flag.
select_optimizer_uncompiling(optimizer_) ==
    /\ optimizer' = optimizer_
    /\ compiled' = FALSE
    /\ last' = Call("select_optimizer", [optimizer_ |-> optimizer_], "ok",
                    "optimizer", "OPTIMIZER_SELECTED", None)
    /\ UNCHANGED <<graph, losses, metrics, callbacks, training_history,
                   columns_per_layer, observers, nextHandle>>

\* Lines 168-169.
select_optimizer(optimizer_) ==
    /\ optimizer' = optimizer_
    /\ last' = Call("select_optimizer", [optimizer_ |-> optimizer_], "ok",
                    "optimizer", "OPTIMIZER_SELECTED", None)
    /\ UNCHANGED <<graph, losses, metrics, callbacks, compiled,
                   training_history, columns_per_layer, observers, nextHandle>>

\* Line 181: losses[layer] = loss(), a dict item assignment.
StoreLoss(ls, layer, loss) == DictPut(ls, layer, loss)

\* Mutant: add_loss returns without calling notify_observers.
add_loss_silent(layer, loss) ==
    /\ losses' = StoreLoss(losses, layer, loss)
    /\ last' = Call("add_loss", [layer |-> layer, loss |-> loss], "ok",
                    "loss", "none", None)
    /\ UNCHANGED <<graph, metrics, optimizer, callbacks, compiled,
                   training_history, columns_per_layer, observers, nextHandle>>

add_loss(layer, loss) ==
    /\ losses' = StoreLoss(losses, layer, loss)
    /\ last' = Call("add_loss", [layer |-> layer, loss |-> loss], "ok",
                    "loss", "LOSSES_SELECTED", None)
    /\ UNCHANGED <<graph, metrics, optimizer, callbacks, compiled,
                   training_history, columns_per_layer, observers, nextHandle>>

\* Line 194: metrics[layer].append(metric()); the item lookup comes first.
add_metric(layer, metric) ==
    LET args == [layer |-> layer, metric |-> metric] IN
    /\ IF layer \notin DOMAIN metrics
       THEN /\ UNCHANGED metrics
            /\ last' = Call("add_metric", args, "KeyError", "none", "none",
                            None)
       ELSE /\ Len(metrics[layer]) < MaxList
            /\ metrics' = [metrics EXCEPT ![layer] = Append(@, metric)]
            /\ last' = Call("add_metric", args, "ok", "metric", "none", None)
    /\ UNCHANGED <<graph, losses, optimizer, callbacks, compiled,
                   training_history, columns_per_layer, observers, nextHandle>>

add_callback(callback) ==
    /\ Len(callbacks) < MaxList
    /\ callbacks' = Append(callbacks, callback)
    /\ last' = Call("add_callback", [callback |-> callback], "ok",
                    "callback", "none", None)
    /\ UNCHANGED <<graph, losses, metrics, optimizer, compiled,
                   training_history, columns_per_layer, observers, nextHandle>>

(* ------------------------ compile, fit, queries ------------------------ *)
\* instance.compile(...) returned: the framework object is now compiled.
Compiled(inst) == [inst EXCEPT !.compiled = TRUE]

compile_model(fw_ok) ==
    /\ IF instance.nil
       THEN /\ UNCHANGED <<instance, compiled>>
            /\ last' = Call("compile_model", NoArgs, "AttributeError",
                            "none", "none", None)
       ELSE IF fw_ok
            THEN /\ instance' = Compiled(instance)
                 /\ compiled' = TRUE
                 /\ last' = Call("compile_model", NoArgs, "ok", "compile",
                                 "MODEL_COMPILED", None)
            ELSE /\ UNCHANGED <<instance, compiled>>
                 /\ last' = Call("compile_model", NoArgs, "FrameworkError",
                                 "compile", "none", None)
    /\ UNCHANGED <<name, input_layers, output_layers, layers, input_shapes,
                   output_shapes, losses, metrics, optimizer, callbacks,
                   training_history, columns_per_layer, observers, nextHandle>>

\* Validation splits, in tenths.
ValSplits == {0, 2}

\* Mutant: only the value of the last epoch is kept.
HistoryOfLastEpoch(ran, val_split) ==
    [k \in (IF val_split > 0 THEN {"loss", "val_loss"} ELSE {"loss"}) |->
        <<0>>]

\* history.history of a run of `ran` epochs: one value per epoch and log name.
History(ran, val_split) ==
    [k \in (IF val_split > 0 THEN {"loss", "val_loss"} ELSE {"loss"}) |->
        [e \in 1..ran |-> 0]]

\* The epochs a run can last: all of them, or fewer when a callback stops it.
RunLengths(num_epochs) ==
    IF callbacks = <<>> THEN {num_epochs} ELSE 1..num_epochs

\* Mutant: the new history is merged into the one recorded before.
fit_model_merging(num_epochs, val_split, ran, fw_ok) ==
    LET args == [num_epochs |-> num_epochs, val_split |-> val_split] IN
    /\ ran \in RunLengths(num_epochs)
    /\ IF instance.nil
       THEN /\ UNCHANGED training_history
            /\ last' = Call("fit_model", args, "AttributeError", "none",
                            "none", None)
       ELSE IF ~instance.compiled
            THEN /\ UNCHANGED training_history
                 /\ last' = Call("fit_model", args, "RuntimeError", "fit",
                                 "none", None)
            ELSE IF fw_ok
                 THEN /\ training_history' =
                           DictUnion(training_history,
                                     History(ran, val_split))
                      /\ last' = Call("fit_model", args, "ok", "fit",
                                      "MODEL_TRAINED", None)
                 ELSE /\ UNCHANGED training_history
                      /\ last' = Call("fit_model", args, "FrameworkError",
                                      "fit", "none", None)
    /\ UNCHANGED <<graph, losses, metrics, optimizer, callbacks, compiled,
                   columns_per_layer, observers, nextHandle>>

\* The framework refuses to fit or evaluate a model it has not compiled.
fit_model(num_epochs, val_split, ran, fw_ok) ==
    LET args == [num_epochs |-> num_epochs, val_split |-> val_split] IN
    /\ ran \in RunLengths(num_epochs)
    /\ IF instance.nil
       THEN /\ UNCHANGED training_history
            /\ last' = Call("fit_model", args, "AttributeError", "none",
                            "none", None)
       ELSE IF ~instance.compiled
            THEN /\ UNCHANGED training_history
                 /\ last' = Call("fit_model", args, "RuntimeError", "fit",
                                 "none", None)
            ELSE IF fw_ok
                 THEN /\ training_history' = History(ran, val_split)
                      /\ last' = Call("fit_model", args, "ok", "fit",
                                      "MODEL_TRAINED", None)
                 ELSE /\ UNCHANGED training_history
                      /\ last' = Call("fit_model", args, "FrameworkError",
                                      "fit", "none", None)
    /\ UNCHANGED <<graph, losses, metrics, optimizer, callbacks, compiled,
                   columns_per_layer, observers, nextHandle>>

\* Mutant: evaluate_model keeps what evaluate returned as the history.
evaluate_model_recording(fw_ok) ==
    /\ last' = IF instance.nil
               THEN Call("evaluate_model", NoArgs, "AttributeError", "none",
                         "none", None)
               ELSE IF ~instance.compiled
                    THEN Call("evaluate_model", NoArgs, "RuntimeError",
                              "evaluate", "none", None)
                    ELSE IF fw_ok
                         THEN Call("evaluate_model", NoArgs, "ok",
                                   "evaluate", "none", None)
                         ELSE Call("evaluate_model", NoArgs, "FrameworkError",
                                   "evaluate", "none", None)
    /\ training_history' = IF ~instance.nil /\ instance.compiled /\ fw_ok
                           THEN History(1, 0)
                           ELSE training_history
    /\ UNCHANGED <<graph, losses, metrics, optimizer, callbacks, compiled,
                   columns_per_layer, observers, nextHandle>>

\* Lines 245-265: the results of evaluate are printed, nothing is stored.
evaluate_model(fw_ok) ==
    /\ last' = IF instance.nil
               THEN Call("evaluate_model", NoArgs, "AttributeError", "none",
                         "none", None)
               ELSE IF ~instance.compiled
                    THEN Call("evaluate_model", NoArgs, "RuntimeError",
                              "evaluate", "none", None)
                    ELSE IF fw_ok
                         THEN Call("evaluate_model", NoArgs, "ok",
                                   "evaluate", "none", None)
                         ELSE Call("evaluate_model", NoArgs, "FrameworkError",
                                   "evaluate", "none", None)
    /\ UNCHANGED <<graph, config, columns_per_layer, observers, nextHandle>>

\* Mutant: predict is reached although there is no instance.
make_predictions_without_instance(fw_ok) ==
    /\ last' = IF fw_ok
               THEN Call("make_predictions", NoArgs, "ok", "predict",
                         "none", None)
               ELSE Call("make_predictions", NoArgs, "FrameworkError",
                         "predict", "none", None)
    /\ UNCHANGED <<graph, config, columns_per_layer, observers, nextHandle>>

\* Lines 267-291: instance.predict is looked up before anything else.
make_predictions(fw_ok) ==
    /\ last' = IF instance.nil
               THEN Call("make_predictions", NoArgs, "AttributeError",
                         "none", "none", None)
               ELSE IF fw_ok
                    THEN Call("make_predictions", NoArgs, "ok", "predict",
                              "none", None)
                    ELSE Call("make_predictions", NoArgs, "FrameworkError",
                              "predict", "none", None)
    /\ UNCHANGED <<graph, config, columns_per_layer, observers, nextHandle>>

\* Mutant: the registry of layers is tested instead of the instance.
model_exists_by_layers ==
    /\ last' = Call("model_exists", NoArgs, "ok", "none", "none",
                    layers # EmptyDict)
    /\ UNCHANGED <<graph, config, columns_per_layer, observers, nextHandle>>

\* Line 374: True if self._model.instance else False.
model_exists ==
    /\ last' = Call("model_exists", NoArgs, "ok", "none", "none", ~instance.nil)
    /\ UNCHANGED <<graph, config, columns_per_layer, observers, nextHandle>>

(* ------------------------ check_layer_capacity ------------------------- *)
Sides == {"input", "output"}

\* Lines 343-346: the shape the side selects.
ShapesOf(layer_type) ==
    IF layer_type = "input" THEN input_shapes ELSE output_shapes

\* Mutant: the comparison is not strict, so an exactly full layer is refused.
WithinCapacityStrict(num_columns, current_num_columns, shape) ==
    IF num_columns + current_num_columns >= shape THEN FALSE ELSE TRUE

\* Line 350.
WithinCapacity(num_columns, current_num_columns, shape) ==
    IF num_columns + current_num_columns > shape THEN FALSE ELSE TRUE

check_layer_capacity(layer_type, layer, num_columns) ==
    LET args == [layer_type |-> layer_type, layer |-> layer,
                 num_columns |-> num_columns] IN
    /\ last' = IF \/ layer \notin DOMAIN ShapesOf(layer_type)
                  \/ layer \notin DOMAIN columns_per_layer
               THEN Call("check_layer_capacity", args, "KeyError", "none",
                         "none", None)
               ELSE Call("check_layer_capacity", args, "ok", "none", "none",
                         WithinCapacity(num_columns, columns_per_layer[layer],
                                        ShapesOf(layer_type)[layer]))
    /\ UNCHANGED <<graph, config, columns_per_layer, observers, nextHandle>>

\* The Data collaborator records how many columns are bound to a layer.
bind_columns(layer, count) ==
    /\ columns_per_layer' = DictPut(columns_per_layer, layer, count)
    /\ last' = Call("bind_columns", [layer |-> layer, count |-> count], "ok",
                    "none", "none", None)
    /\ UNCHANGED <<graph, config, observers, nextHandle>>

(* --------------------- Concatenate.get_connection ---------------------- *)
\* What st.multiselect over the keys of layers can return: distinct names
\* in the order they were selected.
Selections(ls) == NameLists(DOMAIN ls)

\* Mutant: only an empty selection is refused.
TooFewToConcatenateEmptyOnly(concatenate) == Len(concatenate) < 1

\* layers.py line 102: len(self._concatenate) < 2.
TooFewToConcatenate(concatenate) == Len(concatenate) < 2

\* layers.py lines 101-105, on a widget built over the manager's layers.
get_connection(concatenate) ==
    LET args == [concatenate |-> concatenate] IN
    /\ last' = IF TooFewToConcatenate(concatenate)
               THEN Call("get_connection", args, "LayerError", "none",
                         "none", None)
               ELSE Call("get_connection", args, "ok", "none", "none",
                         [k \in 1..Len(concatenate) |->
                             layers[concatenate[k]]])
    /\ UNCHANGED <<graph, config, columns_per_layer, observers, nextHandle>>

(* --------------------------- validate_shapes --------------------------- *)
\* A shape is a tuple of dimensions; only its length is looked at.
ShapeValues == UNION {[1..n -> {1}] : n \in 0..MaxRank}

\* t.Shapes: a dict of shapes (items: its values), a list of shapes, or one
\* shape on its own (items: that shape alone).
ShapesValues ==
    {[kind |-> k, items |-> i] :
        k \in {"dict", "list"},
        i \in UNION {[1..n -> ShapeValues] : n \in 0..MaxShapes}}
    \cup {[kind |-> "tuple", items |-> <<x>>] : x \in ShapeValues}

\* Python truth of a dict, a list or a tuple.
Truthy(n) == n > 0

\* tools/model.py lines 5-23; the test inside the loop (line 15) is on the
\* collection, as written there.
ValidateShapes(shapes) ==
    LET given == IF shapes.kind = "tuple"
                 THEN Len(shapes.items[1]) ELSE Len(shapes.items)
        list == shapes.items
        visit[k \in 0..Len(list)] ==
            IF k = 0 THEN "ok"
            ELSE IF visit[k - 1] # "ok" THEN visit[k - 1]
            ELSE IF ~Truthy(Len(list)) THEN "ValidateModelError"
            ELSE IF Len(list[k]) > 2 THEN "ValidateModelError"
            ELSE "ok"
    IN IF ~Truthy(given) THEN "ValidateModelError" ELSE visit[Len(list)]

validate_shapes(shapes) ==
    /\ last' = Call("validate_shapes", [shapes |-> shapes],
                    ValidateShapes(shapes), "none", "none", None)
    /\ UNCHANGED <<graph, config, columns_per_layer, observers, nextHandle>>

(* -------------------------- observers setter --------------------------- *)
ObserverLists ==
    UNION {[1..n -> ObserverKinds] : n \in 0..MaxObservers}

\* Lines 446-448: the observers property setter.
set_observers(observers_list) ==
    /\ observers' = observers_list
    /\ last' = Call("set_observers", NoArgs, "ok", "none", "none", None)
    /\ UNCHANGED <<graph, config, columns_per_layer, nextHandle>>

(* --------------------------- specifications ---------------------------- *)
\* The operations, with layer names drawn from N, Input widths from D and
\* the compile state of an uploaded model from C.
GraphOps(N, D, C) ==
    \/ \E m \in ModelNames : create_model(m)
    \/ \E d \in D, c \in C, ok \in BOOLEAN : upload_model(d, c, ok)
    \/ \E n \in N, c \in ConnectTos(N), d \in D, ok \in BOOLEAN :
          /\ (c.kind # "none" => d = 1)
          /\ add_layer(n, c, d, ok)
    \/ \E o \in OutputsNames(N), ok \in BOOLEAN : set_model_outputs(o, ok)

SelectionOps(N) ==
    \/ \E l \in N, x \in LossKinds : add_loss(l, x)
    \/ \E l \in N, m \in MetricKinds : add_metric(l, m)

TrainingOps ==
    \/ \E o \in Optimizers : select_optimizer(o)
    \/ \E ok \in BOOLEAN : compile_model(ok)
    \/ \E e \in 1..MaxEpochs, v \in ValSplits, r \in 1..MaxEpochs,
          ok \in BOOLEAN : fit_model(e, v, r, ok)

OptimizerOps ==
    \E o \in OptimizerKinds : select_optimizer(o)

CallbackOps ==
    \E c \in CallbackKinds : add_callback(c)

QueryOps ==
    \/ \E ok \in BOOLEAN : evaluate_model(ok)
    \/ \E ok \in BOOLEAN : make_predictions(ok)
    \/ model_exists

WidgetOps ==
    \E c \in Selections(layers) : get_connection(c)

ShapeOps ==
    \E s \in ShapesValues : validate_shapes(s)

ObserverOps ==
    \E l \in ObserverLists : set_observers(l)

CapacityOps(N) ==
    \/ \E l \in N, k \in 0..MaxCols : bind_columns(l, k)
    \/ \E s \in Sides, l \in N, n \in 0..MaxCols :
          check_layer_capacity(s, l, n)

\* Every operation of the manager.
Next ==
    \/ GraphOps(LayerNames, Dims, BOOLEAN)
    \/ SelectionOps(LayerNames)
    \/ TrainingOps
    \/ CallbackOps
    \/ QueryOps
    \/ CapacityOps(LayerNames)
    \/ ObserverOps
    \/ WidgetOps
    \/ ShapeOps

Spec == Init /\ [][Next]_vars

\* The specifications below each take the graph operations together with the
\* operations of one concern.  An operation left out of one of them writes
\* none of the variables that the operations kept in it read.

\* The graph operations alone, over all layer names.
NextGraph == GraphOps(LayerNames, {1}, {FALSE})
SpecGraph == Init /\ [][NextGraph]_vars

\* Graph operations with loss and metric selection.
NextSelection == GraphOps(CoreNames, {1}, {FALSE}) \/ SelectionOps(CoreNames)
SpecSelection == Init /\ [][NextSelection]_vars

\* Graph operations with optimizer selection, compilation and training.
NextTraining == GraphOps(CoreNames, {1}, BOOLEAN) \/ TrainingOps
SpecTraining == Init /\ [][NextTraining]_vars

\* Graph operations with the Data collaborator's column counts and the
\* capacity query, which reads the entries of one layer: one name is enough.
NextCapacity == GraphOps({"i"}, Dims, {FALSE}) \/ CapacityOps({"i"})
SpecCapacity == Init /\ [][NextCapacity]_vars

\* Every operation that calls notify_observers, and add_metric, over one
\* layer name and an empty observers list.
NextNotify ==
    GraphOps({"i"}, {1}, {FALSE}) \/ SelectionOps({"i"}) \/ TrainingOps
SpecNotify == Init /\ [][NextNotify]_vars

\* Graph operations with the observers setter.
NextObservers == GraphOps({"i"}, {1}, {FALSE}) \/ ObserverOps
SpecObservers == Init /\ [][NextObservers]_vars

\* Graph operations with the operations that only read the manager's state,
\* and fit_model for its behaviour on a missing instance.
NextQueries ==
    \/ GraphOps({"i"}, {1}, BOOLEAN)
    \/ \E e \in 1..MaxEpochs, ok \in BOOLEAN : fit_model(e, 0, e, ok)
    \/ QueryOps
    \/ CapacityOps({"i"})
SpecQueries == Init /\ [][NextQueries]_vars

\* Graph operations with the Concatenate widget's connection.
NextWidgets == GraphOps(CoreNames, {1}, {FALSE}) \/ WidgetOps
SpecWidgets == Init /\ [][NextWidgets]_vars

\* Compilation and training with callbacks, over one layer name.
NextFit == GraphOps({"i"}, {1}, {FALSE}) \/ TrainingOps \/ CallbackOps
SpecFit == Init /\ [][NextFit]_vars

\* Optimizer selection over two kinds of optimizer, with compilation and
\* training so that every field it must leave alone takes several values.
NextOptimizer ==
    \/ GraphOps({"i"}, {1}, {FALSE})
    \/ OptimizerOps
    \/ \E ok \in BOOLEAN : compile_model(ok)
    \/ \E e \in 1..MaxEpochs, ok \in BOOLEAN : fit_model(e, 0, e, ok)
SpecOptimizer == Init /\ [][NextOptimizer]_vars

\* validate_shapes on every collection of shapes within the bounds.
NextShapes == ShapeOps
SpecShapes == Init /\ [][NextShapes]_vars

(* ------------------------------- claims -------------------------------- *)
Succeeded(op) == last.op = op /\ last.status = "ok"
Failed(op) == last.op = op /\ last.status # "ok"

\* C1: immediately after every successful set_model_outputs the compiled
\* flag is false (it stays false until the next successful compile_model).
C1_OutputsClearCompiled ==
    Succeeded("set_model_outputs") => compiled = FALSE

\* C2: every name in input_layers and every name in output_layers is a key
\* of layers, after any sequence of create_model, add_layer and
\* set_model_outputs calls, successful or failed.
C2_DesignatedLayersExist ==
    /\ DOMAIN input_layers \subseteq DOMAIN layers
    /\ DOMAIN output_layers \subseteq DOMAIN layers

\* C2 witness: a failed set_model_outputs on a graph that has both an input
\* and a designated output.
C2_Witness ==
    /\ Failed("set_model_outputs")
    /\ input_layers # EmptyDict
    /\ output_layers # EmptyDict
    /\ DOMAIN output_layers # DOMAIN input_layers

\* C3: add_layer whose connect_to (a name, or any element of a list) is
\* absent from layers fails, and layers and input_layers are as before.
C3_UnknownConnectionFails ==
    [][(/\ last'.op = "add_layer"
        /\ last'.args.connect_to.kind # "none"
        /\ \E n \in Range(last'.args.connect_to.names) : n \notin DOMAIN layers)
       => (/\ last'.status # "ok"
           /\ layers' = layers
           /\ input_layers' = input_layers)]_vars

\* C3 witness: a failed add_layer given a two-name list whose first name is a
\* layer and whose second is not.
C3_Witness ==
    /\ Failed("add_layer")
    /\ last.args.connect_to.kind = "list"
    /\ Len(last.args.connect_to.names) = 2
    /\ last.args.connect_to.names[1] \in DOMAIN layers
    /\ last.args.connect_to.names[2] \notin DOMAIN layers

\* C4: add_layer with no connect_to and a name that is already a key of
\* layers fails with DuplicateNameError and leaves layers and input_layers
\* unchanged (the framework having accepted the layer's parameters).
C4_DuplicateEntryRejected ==
    [][(/\ last'.op = "add_layer"
        /\ last'.args.connect_to.kind = "none"
        /\ last'.args.name \in DOMAIN layers
        /\ last'.status # "FrameworkError")
       => (/\ last'.status = "DuplicateNameError"
           /\ layers' = layers
           /\ input_layers' = input_layers)]_vars

\* C5: add_loss on a name that is not a current output layer fails with the
\* lookup error and leaves losses unchanged; add_metric on such a name fails
\* and leaves metrics unchanged.
C5_SelectionNeedsOutput ==
    [][/\ (/\ last'.op = "add_loss"
           /\ last'.args.layer \notin DOMAIN output_layers)
          => (last'.status = "KeyError" /\ losses' = losses)
       /\ (/\ last'.op = "add_metric"
           /\ last'.args.layer \notin DOMAIN output_layers)
          => (last'.status = "KeyError" /\ metrics' = metrics)]_vars

\* C6: fit_model on an existing model that has not been compiled fails with
\* NotCompiledError without reaching the framework's fit, leaves
\* training_history as it was and notifies nobody.
C6_FitNeedsCompile ==
    [][(/\ last'.op = "fit_model"
        /\ ~instance.nil
        /\ ~instance.compiled)
       => (/\ last'.status = "NotCompiledError"
           /\ last'.fw = "none"
           /\ training_history' = training_history
           /\ last'.notify = "none")]_vars

\* C7: a failed set_model_outputs (unknown name, or the framework rejecting
\* the model) leaves output_layers, layers, the instance, losses and metrics
\* as they were.
C7_FailedOutputsChangeNothing ==
    [][(last'.op = "set_model_outputs" /\ last'.status # "ok")
       => (/\ output_layers' = output_layers
           /\ layers' = layers
           /\ instance' = instance
           /\ losses' = losses
           /\ metrics' = metrics)]_vars

\* C8: after create_model everything is empty: the layer maps, the shapes,
\* losses and metrics, and compiled is false, no optimizer, callback or
\* training history is left from the previous model.
C8_CreateResetsEverything ==
    Succeeded("create_model")
    => (/\ layers = EmptyDict
        /\ input_layers = EmptyDict
        /\ output_layers = EmptyDict
        /\ input_shapes = EmptyDict
        /\ output_shapes = EmptyDict
        /\ losses = EmptyDict
        /\ metrics = EmptyDict
        /\ compiled = FALSE
        /\ optimizer = None
        /\ callbacks = <<>>
        /\ training_history = EmptyDict)

\* C9: after every successful set_model_outputs the keys of losses and of
\* metrics are exactly the output-layer names and every entry is empty,
\* whatever was selected before.
C9_OutputsResetSelections ==
    Succeeded("set_model_outputs")
    => (/\ DOMAIN losses = DOMAIN output_layers
        /\ DOMAIN metrics = DOMAIN output_layers
        /\ \A n \in DOMAIN output_layers :
              losses[n] = EmptyList /\ metrics[n] = <<>>)

\* C9 witness: a successful set_model_outputs that keeps an output which had
\* a loss and a metric selected when it was called.
C9_Witness ==
    /\ Succeeded("set_model_outputs")
    /\ \E n \in DOMAIN output_layers :
          /\ n \in DOMAIN last.pre.losses
          /\ n \in DOMAIN last.pre.metrics
          /\ last.pre.losses[n] # EmptyList
          /\ last.pre.metrics[n] # <<>>

\* C10: check_layer_capacity on a layer with a declared shape returns false
\* exactly when num_columns + columns_per_layer[layer] exceeds the shape of
\* the side asked for, and true when the two are equal.
C10_CapacityPredicate ==
    (/\ last.op = "check_layer_capacity"
     /\ last.args.layer \in DOMAIN columns_per_layer
     /\ last.args.layer \in DOMAIN (IF last.args.layer_type = "input"
                                    THEN input_shapes ELSE output_shapes))
    => LET n == last.args.num_columns
           bound == columns_per_layer[last.args.layer]
           shape == IF last.args.layer_type = "input"
                    THEN input_shapes[last.args.layer]
                    ELSE output_shapes[last.args.layer]
       IN /\ last.status = "ok"
          /\ (last.result = FALSE) <=> (n + bound > shape)
          /\ (n + bound = shape) => (last.result = TRUE)

\* C10 witness: the boundary case on an input layer, columns already bound.
C10_Witness ==
    /\ Succeeded("check_layer_capacity")
    /\ last.args.layer_type = "input"
    /\ last.args.num_columns > 0
    /\ columns_per_layer[last.args.layer] > 0
    /\ last.args.num_columns + columns_per_layer[last.args.layer]
          = input_shapes[last.args.layer]
    /\ last.result = TRUE

\* The callback type each operation passes to notify_observers on success.
MatchingCallback ==
    [create_model |-> "MODEL", upload_model |-> "MODEL",
     add_layer |-> "LAYER_ADDED", set_model_outputs |-> "OUTPUTS_SET",
     select_optimizer |-> "OPTIMIZER_SELECTED",
     add_loss |-> "LOSSES_SELECTED", compile_model |-> "MODEL_COMPILED",
     fit_model |-> "MODEL_TRAINED"]

\* C11 (as claimed): every successful mutating operation, add_metric among
\* them, has invoked a named callback on the observers when it returns.
C11_EveryMutationNotifies ==
    (/\ last.status = "ok"
     /\ last.op \in DOMAIN MatchingCallback \cup {"add_metric"})
        => last.notify \in CallbackTypes

\* C11 (amended): every successful create_model, upload_model, add_layer,
\* set_model_outputs, select_optimizer, add_loss, compile_model and fit_model
\* has invoked its matching callback when it returns; a successful add_metric
\* has stored the metric and has invoked no callback.
C11_MutationsNotifyExceptMetric ==
    /\ (last.status = "ok" /\ last.op \in DOMAIN MatchingCallback)
          => last.notify = MatchingCallback[last.op]
    /\ Succeeded("add_metric")
          => /\ last.notify = "none"
             /\ Len(metrics[last.args.layer])
                  = Len(last.pre.metrics[last.args.layer]) + 1

C11_Witness ==
    /\ Succeeded("add_metric")
    /\ compiled
    /\ training_history # EmptyDict

\* C12: for one notification the observers invoked are exactly those that
\* expose the callback, each once, in registration order; an observer
\* without the callback does not stop the ones registered after it.
C12_ObserversInOrder ==
    LET invoked == last.invoked
    IN /\ \A k \in 1..(Len(invoked) - 1) : invoked[k] < invoked[k + 1]
       /\ Range(invoked)
            = {i \in 1..Len(observers) : Exposes(observers[i], last.notify)}

\* The second of three observers lacks the callback, the third is invoked.
C12_Witness ==
    /\ Succeeded("set_model_outputs")
    /\ Len(observers) = 3
    /\ ~Exposes(observers[2], "OUTPUTS_SET")
    /\ last.invoked = <<1, 3>>

\* C13: while there is no instance (no create_model, upload_model or
\* set_model_outputs has succeeded), fit_model, evaluate_model and
\* make_predictions fail without a framework call and change no field.
C13_NoInstanceNoRun ==
    [][(/\ instance.nil
        /\ last'.op \in {"fit_model", "evaluate_model", "make_predictions"})
          => /\ last'.status # "ok"
             /\ last'.fw = "none"
             /\ last'.notify = "none"
             /\ UNCHANGED <<graph, config>>]_vars

C13_Witness ==
    /\ Failed("make_predictions")
    /\ last.fw = "none"
    /\ instance.nil
    /\ layers # EmptyDict

Builders == {"create_model", "upload_model", "set_model_outputs"}

\* C14: model_exists returns true exactly when some create_model,
\* upload_model or set_model_outputs has succeeded: there is no instance at
\* the start, only a successful call of one of the three makes one, each
\* such call makes one, an instance is never removed, and model_exists
\* returns whether there is one.
C14_ExistsIffBuilt ==
    /\ instance.nil
    /\ [][
          /\ (instance.nil /\ ~instance'.nil)
                => (last'.status = "ok" /\ last'.op \in Builders)
          /\ (last'.status = "ok" /\ last'.op \in Builders)
                => ~instance'.nil
          /\ ~instance.nil => ~instance'.nil
          /\ (last'.op = "model_exists")
                => (last'.result = (~instance'.nil))
       ]_vars

\* model_exists is false after add_layer calls alone.
C14_Witness ==
    /\ Succeeded("model_exists")
    /\ last.result = FALSE
    /\ layers # EmptyDict

QueryNames ==
    {"check_layer_capacity", "evaluate_model", "make_predictions",
     "model_exists"}

\* C19: check_layer_capacity, evaluate_model, make_predictions and
\* model_exists change no field of the model, leave the Data collaborator's
\* columns_per_layer and the observers alone, and notify no observer.
C19_QueriesChangeNothing ==
    [][last'.op \in QueryNames
          => /\ UNCHANGED <<graph, config, columns_per_layer, observers>>
             /\ last'.notify = "none"
             /\ last'.invoked = <<>>]_vars

C19_Witness ==
    /\ Succeeded("evaluate_model")
    /\ training_history # EmptyDict
    /\ "i" \in DOMAIN columns_per_layer

\* C15: a successful create_model leaves layers and input_layers empty, and
\* every successful add_layer of a name not yet in layers adds exactly that
\* name to layers, and to input_layers exactly when it has no connection; so
\* after any such sequence the keys of layers are the names inserted and the
\* keys of input_layers are the names added with no connection.
C15_LayersAreNamesInserted ==
    [][
      /\ (last'.op = "create_model" /\ last'.status = "ok")
            => (layers' = EmptyDict /\ input_layers' = EmptyDict)
      /\ (/\ last'.op = "add_layer"
          /\ last'.status = "ok"
          /\ last'.args.name \notin DOMAIN layers)
            => /\ DOMAIN layers' = DOMAIN layers \cup {last'.args.name}
               /\ DOMAIN input_layers' =
                    DOMAIN input_layers \cup
                      (IF last'.args.connect_to.kind = "none"
                       THEN {last'.args.name} ELSE {})
               /\ UNCHANGED output_layers
    ]_vars

\* create_model, an entry layer and a layer connected to it.
C15_Witness ==
    /\ Succeeded("add_layer")
    /\ last.args.connect_to.kind = "str"
    /\ ~instance.nil
    /\ instance.inputs = EmptyDict
    /\ output_layers = EmptyDict
    /\ Cardinality(DOMAIN layers) = 2
    /\ Cardinality(DOMAIN input_layers) = 1

\* C16: the connection of a Concatenate layer with fewer than two selected
\* names fails with LayerError and returns no handles; with two or more
\* names it returns their handles in the order the names were given.
C16_ConcatenateNeedsTwo ==
    last.op = "get_connection" =>
        LET concatenate == last.args.concatenate
        IN /\ Len(concatenate) < 2
                => (last.status = "LayerError" /\ last.result = None)
           /\ Len(concatenate) >= 2
                => /\ last.status = "ok"
                   /\ Len(last.result) = Len(concatenate)
                   /\ \A k \in 1..Len(concatenate) :
                         last.result[k] = layers[concatenate[k]]

\* Two names given in the opposite order to the one they were added in.
C16_Witness ==
    /\ Succeeded("get_connection")
    /\ Len(last.result) = 2
    /\ last.result[1].id > last.result[2].id

\* C17: a set_model_outputs call that repeats the successful call before it
\* with the same names succeeds too and leaves output_shapes and the keys of
\* output_layers as the first call left them.
C17_OutputsIdempotent ==
    [][(last'.op = "set_model_outputs" /\ last'.again)
          => /\ last'.status = "ok"
             /\ output_shapes' = output_shapes
             /\ DOMAIN output_layers' = DOMAIN output_layers]_vars

C17_Witness ==
    /\ Succeeded("set_model_outputs")
    /\ last.again
    /\ DOMAIN output_shapes = {"i", "o"}

\* TRAINED: the compiled flag is set and a training history is recorded.
Trained == compiled /\ training_history # EmptyDict

\* C18 (as claimed): a successful fit_model right after a successful
\* compile_model leaves the model TRAINED with one value per requested epoch
\* under every recorded name, and a TRAINED model stays TRAINED under every
\* operation other than set_model_outputs, create_model and upload_model.
C18_OneValuePerRequestedEpoch ==
    [][
      /\ (/\ Succeeded("compile_model")
          /\ instance.outputs # EmptyDict
          /\ last'.op = "fit_model"
          /\ last'.status = "ok")
            => /\ Trained'
               /\ \A k \in DOMAIN training_history' :
                     Len(training_history'[k]) = last'.args.num_epochs
      /\ (Trained /\ last'.op \notin Builders) => Trained'
    ]_vars

\* C18 (amended): a successful fit_model right after a successful
\* compile_model leaves the model TRAINED with, under every recorded name,
\* one value per epoch the run lasted: as many as requested when no callback
\* is registered, at least one and at most as many as requested when one is;
\* a TRAINED model stays TRAINED under every operation other than
\* set_model_outputs, create_model and upload_model.
C18_OneValuePerEpochRun ==
    [][
      /\ (/\ Succeeded("compile_model")
          /\ instance.outputs # EmptyDict
          /\ last'.op = "fit_model"
          /\ last'.status = "ok")
            => /\ Trained'
               /\ \A k \in DOMAIN training_history' :
                     /\ Len(training_history'[k]) \in 1..last'.args.num_epochs
                     /\ callbacks = <<>> =>
                          Len(training_history'[k]) = last'.args.num_epochs
      /\ (Trained /\ last'.op \notin Builders) => Trained'
    ]_vars

\* A run of two requested epochs that a callback ended after the first.
C18_Witness ==
    /\ Succeeded("fit_model")
    /\ last.args.num_epochs = 2
    /\ callbacks # <<>>
    /\ instance.outputs # EmptyDict
    /\ Trained
    /\ Len(training_history["loss"]) = 1

\* The layers add_layer has put in the registry since the instance in place
\* was built: the keys of layers that the instance does not have.
AddedLayers ==
    DOMAIN layers \ (DOMAIN instance.inputs \cup DOMAIN instance.outputs)

\* C20: every layer added before a successful set_model_outputs that
\* designates some output, a layer that is neither an input nor one of the
\* new outputs included, is still a key of layers after it.
C20_LayersSurviveOutputs ==
    [][(/\ last'.op = "set_model_outputs"
        /\ last'.status = "ok"
        /\ output_layers' # EmptyDict)
          => AddedLayers \subseteq DOMAIN layers']_vars

\* C21: in every state each name in input_layers has a positive capacity in
\* input_shapes, and each name in output_layers has the shape 1 in
\* output_shapes.
C21_DesignatedLayersHaveShapes ==
    /\ \A n \in DOMAIN input_layers :
          n \in DOMAIN input_shapes /\ input_shapes[n] >= 1
    /\ \A n \in DOMAIN output_layers :
          n \in DOMAIN output_shapes /\ output_shapes[n] = 1

\* refresh_model has run over the instance in place.
Refreshed ==
    /\ DOMAIN input_layers = DOMAIN instance.inputs
    /\ DOMAIN output_layers = DOMAIN instance.outputs
    /\ DOMAIN layers = DOMAIN instance.inputs \cup DOMAIN instance.outputs
    /\ DOMAIN input_shapes = DOMAIN instance.inputs
    /\ DOMAIN output_shapes = DOMAIN instance.outputs
    /\ DOMAIN losses = DOMAIN instance.outputs
    /\ DOMAIN metrics = DOMAIN instance.outputs

\* C22: an operation that fails invokes no observer callback; an operation
\* that notifies has succeeded, invokes each observer at most once, and its
\* updates are in place in the state it leaves: the refreshed metadata after
\* create_model, upload_model and set_model_outputs, the new layer after
\* add_layer.
C22_NotifiedOnSuccessOnly ==
    /\ last.status # "ok"
          => (last.notify = "none" /\ last.invoked = <<>>)
    /\ last.notify # "none"
          => /\ last.status = "ok"
             /\ \A j, k \in 1..Len(last.invoked) :
                   j # k => last.invoked[j] # last.invoked[k]
             /\ last.op \in Builders => Refreshed
             /\ last.op = "add_layer" => last.args.name \in DOMAIN layers

\* The framework rejected the outputs while observers were registered.
C22_Witness ==
    /\ Failed("set_model_outputs")
    /\ last.status = "FrameworkError"
    /\ Len(observers) = 2
    /\ Exposes(observers[1], "OUTPUTS_SET")
    /\ last.invoked = <<>>

\* C23: training_history is empty at the start, is changed by no step but a
\* successful fit_model, and after a successful fit_model holds exactly what
\* that run returned: the log names of that run, each with one value per
\* epoch run; a name recorded only by an earlier run is gone.
C23_HistoryIsLastRun ==
    /\ training_history = EmptyDict
    /\ [][
          IF last'.op = "fit_model" /\ last'.status = "ok"
          THEN /\ DOMAIN training_history' =
                    (IF last'.args.val_split > 0
                     THEN {"loss", "val_loss"} ELSE {"loss"})
               /\ \E ran \in 1..last'.args.num_epochs :
                     \A k \in DOMAIN training_history' :
                        Len(training_history'[k]) = ran
          ELSE UNCHANGED training_history
       ]_vars

\* A run without validation after which no validation log is recorded.
C23_Witness ==
    /\ Succeeded("fit_model")
    /\ last.args.val_split = 0
    /\ last.args.num_epochs = 1
    /\ training_history = History(1, 0)
    /\ instance.outputs # EmptyDict

\* C24: select_optimizer leaves the optimizer it was given as the one
\* selection, whatever was selected before, and changes nothing else:
\* layers, shapes, losses, metrics, callbacks, training history, the
\* instance and the compiled flag stay as they were.
C24_OptimizerOnly ==
    [][last'.op = "select_optimizer"
          => /\ last'.status = "ok"
             /\ optimizer' = last'.args.optimizer_
             /\ UNCHANGED <<graph, losses, metrics, callbacks, compiled,
                            training_history>>]_vars

\* SGD selected over Adam on a compiled and trained model.
C24_Witness ==
    /\ Succeeded("select_optimizer")
    /\ last.pre.optimizer = "Adam"
    /\ optimizer = "SGD"
    /\ compiled
    /\ training_history # EmptyDict

\* C25: for a layer L in output_layers, add_loss(L, x) leaves losses[L]
\* holding x alone and the losses of the other layers as they were;
\* add_metric(L, m) appends m to the end of metrics[L] and leaves the
\* metrics of the other layers as they were; add_callback appends to the
\* end of callbacks.
C25_SelectionsStored ==
    [][
      /\ (/\ last'.op = "add_loss"
          /\ last'.args.layer \in DOMAIN output_layers)
            => /\ last'.status = "ok"
               /\ losses'[last'.args.layer] = last'.args.loss
               /\ \A n \in DOMAIN losses \ {last'.args.layer} :
                     n \in DOMAIN losses' /\ losses'[n] = losses[n]
      /\ (/\ last'.op = "add_metric"
          /\ last'.args.layer \in DOMAIN output_layers)
            => /\ last'.status = "ok"
               /\ metrics'[last'.args.layer] =
                    Append(metrics[last'.args.layer], last'.args.metric)
               /\ \A n \in DOMAIN metrics \ {last'.args.layer} :
                     n \in DOMAIN metrics' /\ metrics'[n] = metrics[n]
      /\ last'.op = "add_callback"
            => callbacks' = Append(callbacks, last'.args.callback)
    ]_vars

\* C26: validate_shapes returns without error exactly when the collection
\* is not empty and every shape in it has one or two dimensions; it raises
\* when the collection is empty, when some shape is empty and when some
\* shape has more than two dimensions.
C26_ShapesValidated ==
    last.op = "validate_shapes" =>
        LET shapes == last.args.shapes
            each == IF shapes.kind = "tuple"
                    THEN {shapes.items[1]} ELSE Range(shapes.items)
        IN last.status = "ok"
              <=> (each # {} /\ \A x \in each : Len(x) \in {1, 2})

\* C27: set_model_outputs given one name as a plain string that is a key of
\* layers raises no lookup error and, when the framework builds the model,
\* leaves exactly that layer as the output.
C27_StringNamesOneOutput ==
    [][(/\ last'.op = "set_model_outputs"
        /\ last'.args.outputs_names.kind = "str"
        /\ last'.args.outputs_names.names[1] \in DOMAIN layers)
          => /\ last'.status # "KeyError"
             /\ last'.status = "ok" =>
                  DOMAIN output_layers' = {last'.args.outputs_names.names[1]}
      ]_vars
====
